---- MODULE Spec2Model ----
(***************************************************************************)
(* Model of the pharma inventory dashboard (src/app.py): the synthetic     *)
(* source generator, the reconciliation (ETL) pipeline, the KPI metrics,   *)
(* the fire-sale query, and the Streamlit script with its session state.   *)
(*                                                                         *)
(* Two specifications:                                                     *)
(*   SpecEtl  run_etl_pipeline and the presentation queries applied to     *)
(*            input batches (hand-written ones, and generated ones);       *)
(*   Spec     the script as a state machine over st.session_state: page    *)
(*            loads, reruns and the "Regenerate Live Data" button.         *)
(*                                                                         *)
(* Dates are calendar records [y, m, d]; instants are integer ticks,       *)
(* TicksPerDay to a day, tick 0 of a day being midnight.  A date string is *)
(* its token list: the separator and the three numeric fields in the order *)
(* they are written.  pandas.to_datetime is modelled as pandas >= 2.0      *)
(* behaves: the format is guessed from the first element (dateutil rules,  *)
(* honouring dayfirst as a preference) and then applied to every element.  *)
(***************************************************************************)
EXTENDS Integers, Sequences, FiniteSets, TLC

VARIABLES
    \* ---- SpecEtl: the pipeline applied to given batches
    pc,              \* "idle" | "input" | "ran" | "shown"
    input,           \* [df_ygn, df_mdl, source, t0, tick, seed]
    now,             \* the instant pd.Timestamp.now() returns in the run
    result,          \* what run_etl_pipeline returned (or raised)
    view,            \* the KPI metrics and the fire-sale list rendered
    queries,         \* how many times the presentation block was evaluated
    \* ---- Spec: the Streamlit script
    session_state,   \* st.session_state: a mapping from keys to values
    page,            \* what the last script execution left on the page
    clock,           \* wall clock, in ticks
    session_before,  \* history: st.session_state when the last execution began
    last_ok,         \* history: output of the last successful pipeline run
    runs             \* history: pipeline runs started by the last execution

etlVars == <<pc, input, now, result, view, queries>>
appVars == <<session_state, page, clock, session_before, last_ok, runs>>
vars == <<pc, input, now, result, view, queries,
          session_state, page, clock, session_before, last_ok, runs>>

(***************************************************************************)
(* Bounds of the model.                                                    *)
(***************************************************************************)
MaxLen == 2          \* records per hand-written input batch
TicksPerDay == 2     \* clock resolution: instants per day
MaxSeed == 1         \* random streams explored per generation: 0..MaxSeed
MaxQueries == 2      \* evaluations of the presentation block per table
MaxClock == 3        \* ticks the wall clock may advance in a session

\* Program constant: records generated per branch (range(50)).
NRecords == 50

\* The day on which the explored runs start (an input, not program data).
StartDate == [y |-> 2025, m |-> 12, d |-> 19]

(***************************************************************************)
(* Calendar arithmetic of datetime / Timestamp (proleptic Gregorian).      *)
(***************************************************************************)
IsLeap(y) == (y % 4 = 0) /\ ((y % 100 # 0) \/ (y % 400 = 0))

DaysInMonth(y, m) ==
    IF m = 2 THEN (IF IsLeap(y) THEN 29 ELSE 28)
    ELSE IF m \in {4, 6, 9, 11} THEN 30 ELSE 31

DaysBeforeYear(y) ==
    LET p == y - 1 IN p * 365 + (p \div 4) - (p \div 100) + (p \div 400)

RECURSIVE DaysBeforeMonth(_, _)
DaysBeforeMonth(y, m) ==
    IF m = 1 THEN 0 ELSE DaysBeforeMonth(y, m - 1) + DaysInMonth(y, m - 1)

toordinal(dt) == DaysBeforeYear(dt.y) + DaysBeforeMonth(dt.y, dt.m) + dt.d

RECURSIVE YearOf(_, _)
YearOf(n, y) == IF n <= DaysBeforeYear(y + 1) THEN y ELSE YearOf(n, y + 1)

RECURSIVE MonthOf(_, _, _)
MonthOf(r, y, m) ==
    IF r <= DaysInMonth(y, m) THEN m ELSE MonthOf(r - DaysInMonth(y, m), y, m + 1)

fromordinal(n) ==
    LET y == YearOf(n, ((n - 1) \div 366) + 1)
        r == n - DaysBeforeYear(y)
        m == MonthOf(r, y, 1)
    IN  [y |-> y, m |-> m, d |-> r - DaysBeforeMonth(y, m)]

\* An instant (ticks) at midnight of a date, and the date an instant falls on.
Midnight(dt) == toordinal(dt) * TicksPerDay
DateOf(t) == fromordinal(t \div TicksPerDay)
\* datetime + timedelta(days=n)
PlusDays(t, n) == t + n * TicksPerDay

NoDate == [y |-> 0, m |-> 0, d |-> 0]
ValidDate(y, m, d) == y >= 1 /\ m \in 1..12 /\ d >= 1 /\ d <= DaysInMonth(y, m)
MkDate(y, m, d) == IF ValidDate(y, m, d) THEN [y |-> y, m |-> m, d |-> d] ELSE NoDate

(***************************************************************************)
(* Date strings: formatting (generate_fake_data) and parsing (pandas).     *)
(***************************************************************************)
\* strftime("%Y-%m-%d") and strftime("%d/%m/%Y")
strftime_ymd(dt) == [sep |-> "-", f |-> <<dt.y, dt.m, dt.d>>]
strftime_dmy(dt) == [sep |-> "/", f |-> <<dt.d, dt.m, dt.y>>]
\* a string that is no date at all
Garbage == [sep |-> "?", f |-> <<0, 0, 0>>]

\* pandas' format guess on one string.  ISO 8601 strings are read as such.
\* A slash string a/b/Y is resolved as dateutil resolves it: day first when
\* the first field cannot be a month, or when dayfirst is asked for and the
\* second field can be a month; month first otherwise.
guess_datetime_format(s, dayfirst) ==
    IF s.sep = "-"
    THEN (IF ValidDate(s.f[1], s.f[2], s.f[3]) THEN "%Y-%m-%d" ELSE "None")
    ELSE IF s.sep = "/"
    THEN (IF s.f[1] > 12 \/ (dayfirst /\ s.f[2] <= 12)
          THEN (IF ValidDate(s.f[3], s.f[2], s.f[1]) THEN "%d/%m/%Y" ELSE "None")
          ELSE (IF ValidDate(s.f[3], s.f[1], s.f[2]) THEN "%m/%d/%Y" ELSE "None"))
    ELSE "None"

\* Strict parse of one string under a known format; NoDate when it does not match.
strptime(s, fmt) ==
    IF fmt = "%Y-%m-%d" /\ s.sep = "-" THEN MkDate(s.f[1], s.f[2], s.f[3])
    ELSE IF fmt = "%d/%m/%Y" /\ s.sep = "/" THEN MkDate(s.f[3], s.f[2], s.f[1])
    ELSE IF fmt = "%m/%d/%Y" /\ s.sep = "/" THEN MkDate(s.f[3], s.f[1], s.f[2])
    ELSE NoDate

\* pd.to_datetime(column, dayfirst=...) with no format given.
to_datetime(strs, dayfirst) ==
    IF strs = <<>> THEN [ok |-> TRUE, dates |-> <<>>]
    ELSE LET fmt == guess_datetime_format(strs[1], dayfirst)
             parsed == [i \in 1..Len(strs) |-> strptime(strs[i], fmt)]
         IN  IF fmt = "None" \/ \E i \in 1..Len(strs) : parsed[i] = NoDate
             THEN [ok |-> FALSE, dates |-> <<>>]
             ELSE [ok |-> TRUE, dates |-> parsed]

(***************************************************************************)
(* Data frames: the columns and the rows.  pd.DataFrame(list of dicts)     *)
(* takes its columns from the dicts, so an empty list gives no columns.    *)
(***************************************************************************)
DataFrame(rows) ==
    [columns |-> IF rows = <<>> THEN {} ELSE DOMAIN rows[1], rows |-> rows]

(***************************************************************************)
(* Part 2: the ETL pipeline.                                               *)
(***************************************************************************)
\* Mutant of get_status: the upper threshold taken inclusively.
get_status_inclusive(d) ==
    IF d < 0 THEN "EXPIRED" ELSE IF d <= 90 THEN "CRITICAL" ELSE "HEALTHY"

get_status(d) ==
    IF d < 0 THEN "EXPIRED" ELSE IF d < 90 THEN "CRITICAL" ELSE "HEALTHY"

\* (expiry_date - now).dt.days: expiry_date is midnight of its date, now an
\* instant with its time of day; .days is the floor of the difference.
days_until(expiry, t) == (Midnight(expiry) - t) \div TicksPerDay

Raise(e) == [ok |-> FALSE, error |-> e, df |-> <<>>]

ygn_clean(df_ygn, dates) ==
    [i \in 1..Len(df_ygn.rows) |->
        [product_id      |-> df_ygn.rows[i].Product_ID,
         product_name    |-> df_ygn.rows[i].Product_Name,
         batch_no        |-> df_ygn.rows[i].Batch_No,
         expiry_date     |-> dates[i],
         quantity        |-> df_ygn.rows[i].Stock_Qty,
         branch_location |-> df_ygn.rows[i].Warehouse_Loc]]

mdl_clean(df_mdl, dates) ==
    [i \in 1..Len(df_mdl.rows) |->
        [product_id      |-> df_mdl.rows[i].PID,
         product_name    |-> df_mdl.rows[i].Name,
         batch_no        |-> df_mdl.rows[i].Batch,
         expiry_date     |-> dates[i],
         quantity        |-> df_mdl.rows[i].Qty,
         branch_location |-> df_mdl.rows[i].Location]]

\* Mutant of concat: rows whose batch_no was already seen are dropped
\* (a drop_duplicates(subset="batch_no") after the concatenation).
concat_drop_duplicates(a, b) ==
    LET all == a \o b
        kept == { i \in 1..Len(all) :
                    \A j \in 1..(i - 1) : all[j].batch_no # all[i].batch_no }
    IN  [k \in 1..Cardinality(kept) |->
            all[CHOOSE i \in kept : Cardinality({ j \in kept : j <= i }) = k]]

\* pd.concat([a, b], ignore_index=True)
concat(a, b) == a \o b

add_status(master, t) ==
    [i \in 1..Len(master) |->
        LET d == days_until(master[i].expiry_date, t)
        IN  [product_id        |-> master[i].product_id,
             product_name      |-> master[i].product_name,
             batch_no          |-> master[i].batch_no,
             expiry_date       |-> master[i].expiry_date,
             quantity          |-> master[i].quantity,
             branch_location   |-> master[i].branch_location,
             days_until_expiry |-> d,
             status            |-> get_status(d)]]

run_etl_pipeline(df_ygn, df_mdl, t) ==
    IF "Expiry_Date" \notin df_ygn.columns
    THEN Raise("KeyError")                       \* df_ygn_clean["expiry_date"]
    ELSE
    LET pa == to_datetime([i \in 1..Len(df_ygn.rows) |-> df_ygn.rows[i].Expiry_Date], FALSE)
    IN  IF ~pa.ok THEN Raise("ValueError")
        ELSE IF "Exp_Date" \notin df_mdl.columns
        THEN Raise("KeyError")                   \* df_mdl["Exp_Date"]
        ELSE
        LET pb == to_datetime([i \in 1..Len(df_mdl.rows) |-> df_mdl.rows[i].Exp_Date], TRUE)
        IN  IF ~pb.ok THEN Raise("ValueError")
            ELSE [ok |-> TRUE, error |-> "",
                  df |-> add_status(concat(ygn_clean(df_ygn, pa.dates),
                                           mdl_clean(df_mdl, pb.dates)), t)]

(***************************************************************************)
(* Part 3: the presentation block (KPI metrics and the fire-sale query).   *)
(***************************************************************************)
\* df[df['status'] == st]
Filter(df, st) == SelectSeq(df, LAMBDA r : r.status = st)

\* df['quantity'].sum()
RECURSIVE SumRange(_, _, _)
SumRange(rows, lo, hi) ==
    IF lo > hi THEN 0
    ELSE IF lo = hi THEN rows[lo].quantity
    ELSE LET mid == (lo + hi) \div 2
         IN  SumRange(rows, lo, mid) + SumRange(rows, mid + 1, hi)

quantity_sum(rows) == SumRange(rows, 1, Len(rows))

\* Mutant of expired_count: the EXPIRED rows counted, not their quantity summed.
expired_count_rows(df) == Len(Filter(df, "EXPIRED"))

expired_count(df) == quantity_sum(Filter(df, "EXPIRED"))
critical_count(df) == quantity_sum(Filter(df, "CRITICAL"))
total_stock(df) == quantity_sum(df)

\* ORDER BY days_until_expiry ASC: the rows of the smallest key first, then
\* those of the next key, and so on (rows with equal keys keep their order)
RECURSIVE OrderByKeys(_, _)
OrderByKeys(rows, keys) ==
    IF keys = {} THEN <<>>
    ELSE LET k == CHOOSE x \in keys : \A y \in keys : x <= y
         IN  SelectSeq(rows, LAMBDA r : r.days_until_expiry = k)
                \o OrderByKeys(rows, keys \ {k})

\* Mutant of OrderByDays: the ORDER BY clause left out.
OrderByDays_unordered(rows) == rows

OrderByDays(rows) ==
    OrderByKeys(rows, { rows[i].days_until_expiry : i \in 1..Len(rows) })

\* SELECT product_name, batch_no, branch_location, expiry_date, days_until_expiry
FireColumns(r) ==
    [product_name      |-> r.product_name,
     batch_no          |-> r.batch_no,
     branch_location   |-> r.branch_location,
     expiry_date       |-> strftime_ymd(r.expiry_date),
     days_until_expiry |-> r.days_until_expiry]

query_fire(df) ==
    LET hit == OrderByDays(Filter(df, "CRITICAL"))
    IN  [i \in 1..Len(hit) |-> FireColumns(hit[i])]

NoView == [rendered |-> FALSE, total |-> 0, critical |-> 0, expired |-> 0, fire |-> <<>>]

Render(df) ==
    [rendered |-> TRUE,
     total    |-> total_stock(df),
     critical |-> critical_count(df),
     expired  |-> expired_count(df),
     fire     |-> query_fire(df)]

(***************************************************************************)
(* Part 1: the synthetic source generator.  The random draws of one call   *)
(* are a stream fixed by its seed; record g (counted over both loops) is   *)
(* stamped with the clock reading of its own datetime.now() call, which    *)
(* moves on by one tick after `tick` records have been produced.           *)
(***************************************************************************)
products ==
    << [id |-> "P001", name |-> "Amoxicillin 500mg"],
       [id |-> "P002", name |-> "Paracetamol 500mg"],
       [id |-> "P003", name |-> "Cetirizine 10mg"],
       [id |-> "P004", name |-> "Vitamin C 1000mg"],
       [id |-> "P005", name |-> "Omeprazole 20mg"] >>

YgnDays == <<-10, 30, 60, 365>>
MdlDays == <<10, 90, 120>>

\* random.choice(seq) and random.randint(lo, hi) as draw number i of stream seed
choice(seq, seed, i) == seq[((seed * 3 + i) % Len(seq)) + 1]
randint(lo, hi, seed, i) == lo + ((seed * 131 + i * 37) % (hi - lo + 1))

NowAt(t0, tick, g) == IF g <= tick THEN t0 ELSE t0 + 1

ygn_days(seed, i) == choice(YgnDays, seed + 1, i)
mdl_days(seed, i) == choice(MdlDays, seed + 2, i)

ygn_row(t0, tick, seed, i) ==
    LET prod == choice(products, seed, i)
    IN  [Product_ID    |-> prod.id,
         Product_Name  |-> prod.name,
         Batch_No      |-> <<"YGN-", randint(1000, 9999, seed, i)>>,
         Expiry_Date   |-> strftime_ymd(DateOf(PlusDays(NowAt(t0, tick, i), ygn_days(seed, i)))),
         Stock_Qty     |-> randint(50, 500, seed + 1, i),
         Warehouse_Loc |-> "Yangon_Main"]

mdl_row(t0, tick, seed, i) ==
    LET prod == choice(products, seed + 1, i)
    IN  [PID      |-> prod.id,
         Name     |-> prod.name,
         Batch    |-> <<"MDL-", randint(1000, 9999, seed + 2, i)>>,
         Exp_Date |-> strftime_dmy(DateOf(PlusDays(NowAt(t0, tick, NRecords + i), mdl_days(seed, i)))),
         Qty      |-> randint(20, 200, seed + 3, i),
         Location |-> "Mandalay_Branch"]

generate_fake_data(t0, tick, seed) ==
    [df_ygn |-> DataFrame([i \in 1..NRecords |-> ygn_row(t0, tick, seed, i)]),
     df_mdl |-> DataFrame([i \in 1..NRecords |-> mdl_row(t0, tick, seed, i)])]

\* How far into the two loops the clock can move on: before, between, after.
TickPoints == {0, NRecords, 2 * NRecords}
\* The instant at which a call of generate_fake_data returns.
AfterGeneration(t0, tick) == NowAt(t0, tick, 2 * NRecords)

(***************************************************************************)
(* Inputs of SpecEtl.  Hand-written batches are sequences of at most       *)
(* MaxLen records drawn from the lists below; dates are written relative   *)
(* to StartDate.  Each list holds records in the source's own format and   *)
(* records that are not.                                                   *)
(***************************************************************************)
Day(n) == fromordinal(toordinal(StartDate) + n)

YgnRecord(batch, str, qty) ==
    [Product_ID |-> "P001", Product_Name |-> "Amoxicillin 500mg",
     Batch_No |-> batch, Expiry_Date |-> str, Stock_Qty |-> qty,
     Warehouse_Loc |-> "Yangon_Main"]

MdlRecord(batch, str, qty) ==
    [PID |-> "P002", Name |-> "Paracetamol 500mg",
     Batch |-> batch, Exp_Date |-> str, Qty |-> qty,
     Location |-> "Mandalay_Branch"]

YgnRecords ==
    { YgnRecord("YGN-1000", strftime_ymd(Day(0)), 100),
      YgnRecord("YGN-1000", strftime_ymd(Day(0)), 50),
      YgnRecord("YGN-2000", strftime_ymd(Day(1)), 50),
      YgnRecord("YGN-3000", strftime_ymd(Day(6)), 500),
      YgnRecord("YGN-4000", strftime_ymd(Day(81)), 60),
      YgnRecord("YGN-5000", [sep |-> "/", f |-> <<5, 3, 2026>>], 70) }

MdlRecords ==
    { MdlRecord("MDL-1000", [sep |-> "/", f |-> <<25, 12, 2025>>], 200),
      MdlRecord("MDL-1000", strftime_dmy(Day(31)), 20),
      MdlRecord("MDL-2000", [sep |-> "/", f |-> <<5, 3, 2026>>], 30),
      MdlRecord("MDL-3000", strftime_dmy(Day(90)), 40),
      MdlRecord("MDL-4000", strftime_dmy(Day(91)), 100),
      MdlRecord("MDL-5000", [sep |-> "/", f |-> <<12, 25, 2025>>], 20),
      MdlRecord("MDL-6000", Garbage, 20) }

BatchesOf(S) == UNION { [1..n -> S] : n \in 0..MaxLen }

StartInstants == { Midnight(StartDate) + k : k \in 0..(TicksPerDay - 1) }

(***************************************************************************)
(* SpecEtl: the pipeline and the presentation block on given batches.      *)
(***************************************************************************)
NoResult == [ok |-> FALSE, error |-> "not run", df |-> <<>>]

AppIdle ==
    /\ session_state = [k \in {} |-> TRUE]
    /\ page = [kind |-> "none"]
    /\ clock = 0
    /\ session_before = [k \in {} |-> TRUE]
    /\ last_ok = <<>>
    /\ runs = 0

EtlInit ==
    /\ pc = "input"
    /\ result = NoResult
    /\ view = NoView
    /\ queries = 0
    /\ \E t0 \in StartInstants :
         \/ /\ now = t0
            /\ \E a \in BatchesOf(YgnRecords), b \in BatchesOf(MdlRecords) :
                 input = [df_ygn |-> DataFrame(a), df_mdl |-> DataFrame(b),
                          source |-> "given", t0 |-> t0, tick |-> 0, seed |-> 0]
         \/ \E tick \in TickPoints, seed \in 0..MaxSeed, dt \in 0..1 :
              /\ now = AfterGeneration(t0, tick) + dt
              /\ LET g == generate_fake_data(t0, tick, seed)
                 IN  input = [df_ygn |-> g.df_ygn, df_mdl |-> g.df_mdl,
                              source |-> "generated", t0 |-> t0, tick |-> tick,
                              seed |-> seed]
    /\ AppIdle

\* run_etl_pipeline(df_ygn, df_mdl), now being what pd.Timestamp.now() returns
RunPipeline ==
    /\ pc = "input"
    /\ result' = run_etl_pipeline(input.df_ygn, input.df_mdl, now)
    /\ pc' = "ran"
    /\ UNCHANGED <<input, now, view, queries>>
    /\ UNCHANGED appVars

\* The presentation block on the returned table (lines 106-141); evaluating
\* it again on the same table is a rerun of these queries.
Present ==
    /\ pc \in {"ran", "shown"}
    /\ result.ok
    /\ queries < MaxQueries
    /\ view' = Render(result.df)
    /\ queries' = queries + 1
    /\ pc' = "shown"
    /\ UNCHANGED <<input, now, result>>
    /\ UNCHANGED appVars

EtlNext == RunPipeline \/ Present

SpecEtl == EtlInit /\ [][EtlNext]_vars

(***************************************************************************)
(* Spec: the Streamlit script.  Every user interaction executes the whole  *)
(* script from the top against the session's st.session_state.  An         *)
(* exception that escapes a call aborts the execution at that point: the   *)
(* assignments already made to st.session_state stay, nothing below the    *)
(* failing line is rendered, and Streamlit shows the exception instead.    *)
(***************************************************************************)
EmptySession == [k \in {} |-> TRUE]

\* st.session_state[k] = v
SetItem(s, k, v) == [x \in (DOMAIN s) \cup {k} |-> IF x = k THEN v ELSE s[x]]

\* What may escape a call in one execution: nothing, or an exception out of
\* generate_fake_data, or one out of run_etl_pipeline.
Raises == {"none", "generate_fake_data", "run_etl_pipeline"}

\* generate_fake_data() followed by run_etl_pipeline(df_ygn, df_mdl), begun at t
PipelineRun(t, tick, seed, dt, raises) ==
    IF raises = "generate_fake_data" THEN Raise("generate_fake_data")
    ELSE IF raises = "run_etl_pipeline" THEN Raise("run_etl_pipeline")
    ELSE LET g == generate_fake_data(t, tick, seed)
         IN  run_etl_pipeline(g.df_ygn, g.df_mdl, AfterGeneration(t, tick) + dt)

NotRun == [ok |-> TRUE, error |-> "", df |-> <<>>]

\* Mutant of AfterButton: the new table appended to the stored one.
AfterButton_merge(s, button, r) ==
    LET s1 == IF button THEN SetItem(s, "data_generated", TRUE) ELSE s
        old == IF "df_master" \in DOMAIN s THEN s["df_master"] ELSE <<>>
    IN  IF button /\ r.ok THEN SetItem(s1, "df_master", old \o r.df) ELSE s1

\* Line 95-99: the handler of the "Regenerate Live Data" button
AfterButton(s, button, r) ==
    LET s1 == IF button THEN SetItem(s, "data_generated", TRUE) ELSE s
    IN  IF button /\ r.ok THEN SetItem(s1, "df_master", r.df) ELSE s1

\* Line 102: if 'df_master' not in st.session_state
NeedsBootstrap(s) == "df_master" \notin DOMAIN s

\* Line 102-104: the session bootstrap
AfterBootstrap(s, boot, r) ==
    IF boot /\ r.ok THEN SetItem(s, "df_master", r.df) ELSE s

Dashboard(df, button) ==
    [kind |-> "dashboard", button |-> button, success |-> button, view |-> Render(df)]

ExceptionPage(button) ==
    [kind |-> "exception", button |-> button, success |-> FALSE, view |-> NoView]

\* One execution of the script: what it leaves behind.
Execute(button, raises, tick, seed, dt) ==
    LET r1 == IF button THEN PipelineRun(clock, tick, seed, dt, raises) ELSE NotRun
        s2 == AfterButton(session_state, button, r1)
        boot == r1.ok /\ NeedsBootstrap(s2)
        r2 == IF boot THEN PipelineRun(clock, tick, seed, dt, raises) ELSE NotRun
        s3 == AfterBootstrap(s2, boot, r2)
    IN  [session |-> s3,
         ok      |-> r1.ok /\ r2.ok,
         runs    |-> (IF button THEN 1 ELSE 0) + (IF boot THEN 1 ELSE 0),
         last_ok |-> IF boot /\ r2.ok THEN r2.df
                     ELSE IF button /\ r1.ok THEN r1.df ELSE last_ok,
         done    |-> AfterGeneration(clock, tick) + dt]

Script(button, raises, tick, seed, dt) ==
    \E e \in {Execute(button, raises, tick, seed, dt)} :
        /\ e.runs > 0 => e.done <= Midnight(StartDate) + MaxClock
        /\ session_before' = session_state
        /\ session_state' = e.session
        /\ runs' = e.runs
        /\ last_ok' = e.last_ok
        /\ page' = IF e.ok THEN Dashboard(e.session["df_master"], button)
                   ELSE ExceptionPage(button)
        /\ clock' = IF e.runs > 0 /\ e.ok THEN e.done ELSE clock

EtlIdle ==
    /\ pc = "idle"
    /\ input = [source |-> "none"]
    /\ now = 0
    /\ result = NoResult
    /\ view = NoView
    /\ queries = 0

Init ==
    /\ session_state = EmptySession
    /\ session_before = EmptySession
    /\ page = [kind |-> "none"]
    /\ clock \in StartInstants
    /\ last_ok = <<>>
    /\ runs = 0
    /\ EtlIdle

\* A page load or a rerun that the button did not cause
PageRun ==
    /\ \E raises \in Raises, tick \in TickPoints, seed \in 0..MaxSeed, dt \in 0..1 :
         Script(FALSE, raises, tick, seed, dt)
    /\ UNCHANGED etlVars

\* A click on "Regenerate Live Data": the script runs with the button true.
\* The button exists once the script has rendered the sidebar.
Regenerate ==
    /\ page.kind # "none"
    /\ \E raises \in Raises, tick \in TickPoints, seed \in 0..MaxSeed, dt \in 0..1 :
         Script(TRUE, raises, tick, seed, dt)
    /\ UNCHANGED etlVars

\* Time passes between two executions
Tick ==
    /\ clock < Midnight(StartDate) + MaxClock
    /\ clock' = clock + 1
    /\ UNCHANGED <<session_state, page, session_before, last_ok, runs>>
    /\ UNCHANGED etlVars

Next == PageRun \/ Regenerate \/ Tick

Spec == Init /\ [][Next]_vars

(***************************************************************************)
(* Properties.                                                             *)
(***************************************************************************)
Ran == pc \in {"ran", "shown"}
YgnRows == input.df_ygn.rows
MdlRows == input.df_mdl.rows

\* A string in its source's asserted format, and the date it then denotes.
MatchesISO(s) == s.sep = "-" /\ ValidDate(s.f[1], s.f[2], s.f[3])
MatchesDMY(s) == s.sep = "/" /\ ValidDate(s.f[3], s.f[2], s.f[1])
ReadDMY(s) == [y |-> s.f[3], m |-> s.f[2], d |-> s.f[1]]
Conforming ==
    /\ \A i \in 1..Len(YgnRows) : MatchesISO(YgnRows[i].Expiry_Date)
    /\ \A j \in 1..Len(MdlRows) : MatchesDMY(MdlRows[j].Exp_Date)

\* C1: reconciliation is lossless.  Whenever run_etl_pipeline returns a table
\* for batches of a Variant-A and b Variant-B records, the table has exactly
\* a + b rows: row i carries the fields of the i-th Variant-A record and row
\* a + j those of the j-th Variant-B record, so each raw record appears once,
\* also when records share a batch_no; and non-empty batches written in their
\* sources' formats always yield a table.
C1_Lossless ==
    Ran =>
      LET a == Len(YgnRows)
          b == Len(MdlRows)
      IN  /\ (Conforming /\ a > 0 /\ b > 0) => result.ok
          /\ result.ok =>
               /\ Len(result.df) = a + b
               /\ \A i \in 1..a :
                    /\ result.df[i].product_id = YgnRows[i].Product_ID
                    /\ result.df[i].product_name = YgnRows[i].Product_Name
                    /\ result.df[i].batch_no = YgnRows[i].Batch_No
                    /\ result.df[i].quantity = YgnRows[i].Stock_Qty
                    /\ result.df[i].branch_location = YgnRows[i].Warehouse_Loc
               /\ \A j \in 1..b :
                    /\ result.df[a + j].product_id = MdlRows[j].PID
                    /\ result.df[a + j].product_name = MdlRows[j].Name
                    /\ result.df[a + j].batch_no = MdlRows[j].Batch
                    /\ result.df[a + j].quantity = MdlRows[j].Qty
                    /\ result.df[a + j].branch_location = MdlRows[j].Location

\* C1 witness: a table was returned for two distinct Variant-A records that
\* carry the same batch_no, together with a Variant-B record.
C1_Witness ==
    /\ Ran /\ result.ok /\ input.source = "given"
    /\ Len(YgnRows) = 2 /\ Len(MdlRows) >= 1
    /\ YgnRows[1].Batch_No = YgnRows[2].Batch_No
    /\ YgnRows[1] # YgnRows[2]

\* C2: the status of every canonical record follows its days_until_expiry d:
\* d < 0 is EXPIRED, 0 <= d < 90 is CRITICAL, d >= 90 is HEALTHY (so -1 is
\* EXPIRED, 0 and 89 are CRITICAL, 90 is HEALTHY), and each record has exactly
\* one of the three statuses.
C2_StatusThresholds ==
    (Ran /\ result.ok) =>
      \A i \in 1..Len(result.df) :
        LET d == result.df[i].days_until_expiry
            st == result.df[i].status
        IN  /\ st \in {"EXPIRED", "CRITICAL", "HEALTHY"}
            /\ (st = "EXPIRED") <=> (d < 0)
            /\ (st = "CRITICAL") <=> (0 <= d /\ d < 90)
            /\ (st = "HEALTHY") <=> (d >= 90)

HasRow(d, st) ==
    \E i \in 1..Len(result.df) :
        result.df[i].days_until_expiry = d /\ result.df[i].status = st

\* C2 witness: one table holding the four boundary records.
C2_Witness ==
    /\ Ran /\ result.ok
    /\ HasRow(-1, "EXPIRED") /\ HasRow(0, "CRITICAL")
    /\ HasRow(89, "CRITICAL") /\ HasRow(90, "HEALTHY")

\* C3 (as claimed): days_until_expiry is the number of calendar days from the
\* run's current date to the record's expiry_date, whatever the time of day
\* of the run: 0 for a record expiring on the run date, k for one expiring k
\* days later.
C3_CalendarDays ==
    (Ran /\ result.ok) =>
      \A i \in 1..Len(result.df) :
        result.df[i].days_until_expiry =
            toordinal(result.df[i].expiry_date) - toordinal(DateOf(now))

\* C4 (as claimed): a run over batches in which some date string is not in
\* its source's asserted format (YYYY-MM-DD for Variant A, DD/MM/YYYY for
\* Variant B) fails and returns no table.
C4_HardFailure ==
    (Ran /\ ~Conforming) => ~result.ok

\* C7 (as claimed): every Variant-B string written as DD/MM/YYYY normalizes to
\* the date with that day, month and year; and every generated record of
\* either variant comes out with the calendar date that was generated.
C7_DayFirstRoundTrip ==
    (Ran /\ result.ok) =>
      LET a == Len(YgnRows)
      IN  /\ \A j \in 1..Len(MdlRows) :
               MatchesDMY(MdlRows[j].Exp_Date) =>
                 result.df[a + j].expiry_date = ReadDMY(MdlRows[j].Exp_Date)
          /\ input.source = "generated" =>
               /\ \A i \in 1..NRecords :
                    result.df[i].expiry_date =
                      DateOf(PlusDays(NowAt(input.t0, input.tick, i),
                                      ygn_days(input.seed, i)))
               /\ \A j \in 1..NRecords :
                    result.df[a + j].expiry_date =
                      DateOf(PlusDays(NowAt(input.t0, input.tick, NRecords + j),
                                      mdl_days(input.seed, j)))

\* C8 (as claimed): with both input batches empty the run does not fail, the
\* canonical table is empty and the three metrics read zero.
C8_EmptyInput ==
    (Ran /\ Len(YgnRows) = 0 /\ Len(MdlRows) = 0) =>
      /\ result.ok
      /\ result.df = <<>>
      /\ pc = "shown" => (view.total = 0 /\ view.critical = 0 /\ view.expired = 0)

\* Sum of quantity over the rows lo..hi of df whose status is in S.
RECURSIVE StatusSum(_, _, _, _)
StatusSum(df, S, lo, hi) ==
    IF lo > hi THEN 0
    ELSE IF lo = hi THEN (IF df[lo].status \in S THEN df[lo].quantity ELSE 0)
    ELSE StatusSum(df, S, lo, (lo + hi) \div 2)
           + StatusSum(df, S, ((lo + hi) \div 2) + 1, hi)

\* C9: on every canonical table the "Already Expired" metric is the sum of
\* quantity over exactly the EXPIRED records, "At Risk" the sum over exactly
\* the CRITICAL records, "Total Inventory" the sum over all records, the
\* total being the sum of the three per-status sums; evaluating the metrics
\* again on the unchanged table shows the same values.
C9_Metrics ==
    pc = "shown" =>
      LET n == Len(result.df)
          e == StatusSum(result.df, {"EXPIRED"}, 1, n)
          c == StatusSum(result.df, {"CRITICAL"}, 1, n)
          h == StatusSum(result.df, {"HEALTHY"}, 1, n)
      IN  /\ view.rendered
          /\ view.expired = e
          /\ view.critical = c
          /\ view.total = StatusSum(result.df, {"EXPIRED", "CRITICAL", "HEALTHY"}, 1, n)
          /\ view.total = e + c + h

\* C9 witness: the metrics were evaluated twice on a table with exactly two
\* EXPIRED records, of quantities 100 and 50, and "Already Expired" reads 150.
C9_Witness ==
    /\ pc = "shown" /\ queries = 2
    /\ Len(Filter(result.df, "EXPIRED")) = 2
    /\ \E i, j \in 1..Len(result.df) :
         /\ result.df[i].status = "EXPIRED" /\ result.df[i].quantity = 100
         /\ result.df[j].status = "EXPIRED" /\ result.df[j].quantity = 50
    /\ view.expired = 150

\* How often a fire-sale row x occurs in the list, and among the CRITICAL
\* records of the table.
InFire(x) == Cardinality({ k \in 1..Len(view.fire) : view.fire[k] = x })
InTable(x) ==
    Cardinality({ i \in 1..Len(result.df) :
        /\ result.df[i].status = "CRITICAL"
        /\ result.df[i].product_name = x.product_name
        /\ result.df[i].batch_no = x.batch_no
        /\ result.df[i].branch_location = x.branch_location
        /\ result.df[i].days_until_expiry = x.days_until_expiry
        /\ strftime_ymd(result.df[i].expiry_date) = x.expiry_date })

\* C10: the fire-sale list holds exactly the CRITICAL records of the table
\* (each as often as the table holds it, and nothing else), in non-decreasing
\* order of days_until_expiry; building it leaves the table as the pipeline
\* returned it.
C10_FireSale ==
    pc = "shown" =>
      /\ Len(view.fire) = Len(Filter(result.df, "CRITICAL"))
      /\ \A k \in 1..Len(view.fire) : InFire(view.fire[k]) = InTable(view.fire[k])
      /\ \A k \in 1..(Len(view.fire) - 1) :
           view.fire[k].days_until_expiry <= view.fire[k + 1].days_until_expiry
      /\ result = run_etl_pipeline(input.df_ygn, input.df_mdl, now)

\* C10 witness: three CRITICAL records held in the order 5, 80, 30 are listed
\* as 5, 30, 80.
C10_Witness ==
    /\ pc = "shown"
    /\ Len(result.df) = 3
    /\ [i \in 1..3 |-> result.df[i].days_until_expiry] = <<5, 80, 30>>
    /\ \A i \in 1..3 : result.df[i].status = "CRITICAL"
    /\ [k \in 1..Len(view.fire) |-> view.fire[k].days_until_expiry] = <<5, 30, 80>>

HasTable(s) == "df_master" \in DOMAIN s

\* C5 (as claimed): when an execution triggered by the regenerate button
\* fails in a session that holds a previous successful result,
\* st.session_state is what it was before the trigger, and the page still
\* shows that previous result.
C5_FailedRegenerateKeepsState ==
    (page.kind = "exception" /\ page.button /\ HasTable(session_before)) =>
      /\ session_state = session_before
      /\ page.view.rendered
      /\ page.view = Render(session_before["df_master"])

\* C6: after any sequence of page loads, reruns and regenerate clicks the
\* session's table is the output of the most recent successful generation +
\* reconciliation run, with NRecords Yangon and NRecords Mandalay records and
\* nothing else; an execution runs the pipeline at most once; a successful
\* regenerate stores the output of its own run; an execution without the
\* trigger leaves a stored table as it was.
C6_SessionTable ==
    /\ runs <= 1
    /\ HasTable(session_state) <=> last_ok # <<>>
    /\ HasTable(session_state) =>
         LET df == session_state["df_master"]
         IN  /\ df = last_ok
             /\ Len(df) = 2 * NRecords
             /\ \A i \in 1..NRecords : df[i].branch_location = "Yangon_Main"
             /\ \A i \in (NRecords + 1)..(2 * NRecords) :
                    df[i].branch_location = "Mandalay_Branch"
    /\ (page.kind = "dashboard" /\ page.button) => runs = 1
    /\ (page.kind # "none" /\ ~page.button /\ HasTable(session_before)) =>
         (runs = 0 /\ session_state = session_before)

\* C6 witness: a successful regenerate replaced a stored table by another one.
C6_Witness ==
    /\ page.kind = "dashboard" /\ page.button
    /\ HasTable(session_before) /\ HasTable(session_state)
    /\ session_before["df_master"] # session_state["df_master"]
    /\ session_state["df_master"] = last_ok

====
